---- MODULE Spec2Model ----
(***************************************************************************)
(* Email verification service of src/custom_email_verification.py:         *)
(* SimpleDatabase (users and tokens kept in one in-memory dict, rewritten   *)
(* to a JSON file by every mutating call) and EmailVerificationService      *)
(* (register_user, verify_email_token, resend_verification_email,           *)
(* login_user).                                                             *)
(*                                                                          *)
(* The service object is shared by the request threads of the web server   *)
(* (app.run, src/custom_email_verification.py:629), and the code takes no   *)
(* lock.  Each thread executes its call one source statement at a time;     *)
(* one statement is one step, steps of different threads interleave.       *)
(* A dict returned by get_user / get_token_data is a reference to the       *)
(* stored dict, so user records live in a heap and are named by reference.  *)
(* The clock unit is one hour.  uuid4 is taken to return a value it never   *)
(* returned before, sha256 and HMAC to be injective; _save_db is taken to   *)
(* complete (no I/O fault).                                                 *)
(***************************************************************************)
EXTENDS Integers, Sequences, FiniteSets, Bags, TLC

\* ------------------------------------------------------------------ bounds
\* one caller (SpecSeq): calls made, hours passed
MaxCalls == 3
MaxTime == 2
\* concurrent callers (Spec): calls made
ConcCalls == 3
\* one caller of one identity (SpecOne): calls made
OneCalls == 4
\* two instances on one db_file (SpecFiles): calls made, instances constructed
FileCalls == 3
MaxOpens == 2
\* the polling clients (SpecClients): retries, max_attempts; delay, polling_interval
MaxRetries == 3
MaxDelay == 1
\* wait_for_verification_email: timeout; longest time one request takes
MaxTimeout == 2
MaxLatency == 2

\* token_expiry_hours, the configured validity window (in hours)
TokenExpiryHours == 1

Threads == {"t1", "t2"}
MainThread == "t1"
Emails == {"alice@example.com", "bob@example.com"}
Passwords == {"pw1", "pw2"}
DisplayName == "Al"
HmacSecret == "your-secret-key"
\* the values HMAC_SECRET is configured with
Secrets == {HmacSecret, "rotated-secret"}

\* Spec follows the concurrent callers for one validity window
ConcTime == TokenExpiryHours

\* what the callers of a specification may do: how many calls, for which emails
SeqScope == [calls |-> MaxCalls, emails |-> Emails, passwords |-> Passwords]
KeyScope == [calls |-> MaxCalls, emails |-> {"alice@example.com"}, passwords |-> {"pw1"}]
OneScope == [calls |-> OneCalls, emails |-> {"alice@example.com"}, passwords |-> {"pw1"}]
FileScope == [calls |-> FileCalls, emails |-> Emails, passwords |-> {"pw1"}]
ConcScope == [calls |-> ConcCalls, emails |-> {"alice@example.com"}, passwords |-> Passwords]

VARIABLES
    users,      \* self.data["users"]: email -> reference of the user dict
    heap,       \* the user dicts, by reference
    tokens,     \* self.data["tokens"]: token -> [email, expiry, used]
    file,       \* content of db_file after the last _save_db
    now,        \* datetime.now()
    hmac_secret, \* self.hmac_secret of the running service
    uuids,      \* number of values uuid4 has returned
    outbox,     \* (email, token) pairs handed to send_verification_email
    frame,      \* per thread: position in its call, arguments, locals
    last,       \* the call that returned last: operation, argument, result
    calls,      \* number of calls started
    accepted,   \* bag of tokens: verify_email_token calls that returned success
    registered, \* bag of emails: register_user calls that returned success
    expiredSeen, \* tokens some verify_email_token call rejected as expired
    other,      \* self.data of a second SimpleDatabase instance on db_file
    opens,      \* SimpleDatabase constructions after the first; did the last one save
    poller      \* the call of a polling client function: inputs, position, locals

store == <<users, heap, tokens, file>>
hist == <<accepted, registered, expiredSeen>>
ext == <<other, opens, poller>>
service == <<users, heap, tokens, file, now, hmac_secret, uuids, outbox, frame, last, calls,
             accepted, registered, expiredSeen, other, opens>>
vars == <<users, heap, tokens, file, now, hmac_secret, uuids, outbox, frame, last, calls,
          accepted, registered, expiredSeen, other, opens, poller>>

\* ----------------------------------------------------------- pure helpers
NoRef == 0
NoToken == <<0, 0, <<>>>>
NoTime == <<>>
NoResult == [success |-> FALSE, error |-> "pending"]

\* None
None == "None"

\* dict.get(key, default)
Get(d, key, default) == IF key \in DOMAIN d THEN d[key] ELSE default

\* datetime.isoformat / datetime.fromisoformat
isoformat(d) == <<"iso", d>>
fromisoformat(s) == s[2]

\* hashlib.sha256(password.encode()).hexdigest()
sha256(password) == <<"sha256", password>>

\* int(now.timestamp())
SecondsPerHour == 3600
timestamp(d) == d * SecondsPerHour

\* hmac.new(secret, f"{email}:{random_token}:{timestamp}", sha256).hexdigest()
hmac_sign(secret, email, random_token, ts) == <<secret, email, random_token, ts>>

\* a token made without the random part
MakeToken_Mut(email, random_token, d) ==
    <<0, timestamp(d), hmac_sign(hmac_secret, email, 0, timestamp(d))>>

\* f"{random_token}.{timestamp}.{signature}"
MakeToken(email, random_token, d) ==
    <<random_token, timestamp(d), hmac_sign(hmac_secret, email, random_token, timestamp(d))>>

\* a well-formed token that was never issued (uuid 0 is never drawn)
ForgedToken == MakeToken("alice@example.com", 0, 0)

\* json.dump(self.data, f)
Snapshot(us, hp, tk) == [users |-> [e \in DOMAIN us |-> hp[us[e]]], tokens |-> tk]

\* SimpleDatabase.get_user: the reference stored for email, or None
get_user(email) == IF email \in DOMAIN users THEN users[email] ELSE NoRef

\* a new user record that is verified from the start
NewUser_Mut(email, password, d) ==
    [email |-> email, name |-> DisplayName, password_hash |-> sha256(password),
     verified |-> TRUE, created_at |-> isoformat(d), last_login |-> NoTime]

\* the record register_user builds for a new user
NewUser(email, password, d) ==
    [email |-> email, name |-> DisplayName, password_hash |-> sha256(password),
     verified |-> FALSE, created_at |-> isoformat(d), last_login |-> NoTime]

\* no user dict (None)
NoUser == NewUser("", "", 0)

\* add_token that stores the token without the email it is bound to
add_token_Unbound(tk, token, email, expiry) ==
    (token :> [email |-> "", expiry |-> isoformat(expiry), used |-> FALSE])
        @@ [k \in DOMAIN tk \ {token} |-> tk[k]]

\* add_token that also clears the used flag of the stored tokens
add_token_Reset(tk, token, email, expiry) ==
    [k \in DOMAIN tk \cup {token} |->
        IF k = token THEN [email |-> email, expiry |-> isoformat(expiry), used |-> FALSE]
                     ELSE [tk[k] EXCEPT !.used = FALSE]]

\* add_token that replaces the tokens issued earlier for the same email
add_token_Replace(tk, token, email, expiry) ==
    (token :> [email |-> email, expiry |-> isoformat(expiry), used |-> FALSE])
        @@ [k \in {x \in DOMAIN tk : tk[x].email # email} |-> tk[k]]

\* SimpleDatabase.add_token: the token dict after storing token
add_token(tk, token, email, expiry) ==
    (token :> [email |-> email, expiry |-> isoformat(expiry), used |-> FALSE])
        @@ [k \in DOMAIN tk \ {token} |-> tk[k]]

\* mark_token_used that drops the consumed token from the store
mark_token_used_Drop(tk, token) == [k \in DOMAIN tk \ {token} |-> tk[k]]

\* mark_token_used that does not set the flag
mark_token_used_Mut(tk, token) == tk

\* SimpleDatabase.mark_token_used: the token dict after marking token
mark_token_used(tk, token) ==
    IF token \in DOMAIN tk THEN [tk EXCEPT ![token].used = TRUE] ELSE tk

\* SimpleDatabase.update_user: the heap after users[email].update(user_data)
update_user(hp, us, email, ref) ==
    IF email \in DOMAIN us THEN [hp EXCEPT ![us[email]] = hp[ref]] ELSE hp

\* an expiry check that also rejects at the instant of expiry
IsExpired_Mut(d, expiry) == d >= fromisoformat(expiry)

\* datetime.now() > expiry
IsExpired(d, expiry) == d > fromisoformat(expiry)

\* the identity of email exists and its verified flag is set
Verified(email) == email \in DOMAIN users /\ heap[users[email]].verified

\* ------------------------------------------------------------------ frames
IdleFrame ==
    [pc |-> "idle", op |-> "none", email |-> "", password |-> "",
     token |-> NoToken, token_data |-> NoToken, user_data |-> NoRef,
     user_rec |-> NoUser, expiry |-> 0,
     afterAccept |-> FALSE, afterExpired |-> FALSE, unusedAtStart |-> FALSE,
     lateAtStart |-> FALSE, verifiedAtStart |-> FALSE, flipped |-> FALSE,
     passwordOk |-> FALSE, undeliveredAtStart |-> FALSE]

StartFrame(op, pc0, email, password, token) ==
    [IdleFrame EXCEPT !.pc = pc0, !.op = op, !.email = email,
                      !.password = password, !.token = token,
                      !.afterAccept = (CopiesIn(token, accepted) > 0),
                      !.afterExpired = (token \in expiredSeen),
                      !.unusedAtStart = (token \in DOMAIN tokens /\ ~tokens[token].used),
                      !.lateAtStart = (token \in DOMAIN tokens
                                         /\ now > fromisoformat(tokens[token].expiry)),
                      !.verifiedAtStart = (token \in DOMAIN tokens
                                         /\ Verified(tokens[token].email)),
                      !.passwordOk = (op = "login" /\ email \in DOMAIN users
                          /\ heap[users[email]].password_hash = sha256(password)),
                      !.undeliveredAtStart = (op = "verify"
                          /\ last.op \in {"register", "resend"} /\ last.token = token
                          /\ last.result.success /\ ~last.result.email_sent)]

\* the call of thread t returns res: its frame is dropped; the returned call
\* (operation, argument, result) is kept in last until the next return
Return(t, res) ==
    /\ frame' = [frame EXCEPT ![t] = IdleFrame]
    /\ last' = [op |-> frame[t].op, email |-> frame[t].email, token |-> frame[t].token,
                result |-> res,
                afterAccept |-> frame[t].afterAccept,
                afterExpired |-> frame[t].afterExpired,
                unusedAtStart |-> frame[t].unusedAtStart,
                lateAtStart |-> frame[t].lateAtStart,
                verifiedAtStart |-> frame[t].verifiedAtStart,
                passwordOk |-> frame[t].passwordOk,
                undeliveredAtStart |-> frame[t].undeliveredAtStart]

At(t, loc) == frame[t].pc = loc

\* a step inside the call of thread t: its frame becomes f
Local(t, f) == frame' = [frame EXCEPT ![t] = f] /\ UNCHANGED last

Goto(t, loc) == Local(t, [frame[t] EXCEPT !.pc = loc])

\* no second instance is open
Closed == [closed |-> TRUE]
\* no polling client function is running
NoPoller == [fn |-> "none"]

\* no call has returned yet
NoCall ==
    [op |-> "none", email |-> "", token |-> NoToken, result |-> NoResult,
     afterAccept |-> FALSE, afterExpired |-> FALSE, unusedAtStart |-> FALSE,
     lateAtStart |-> FALSE, verifiedAtStart |-> FALSE,
     passwordOk |-> FALSE, undeliveredAtStart |-> FALSE]

InitStore ==
    /\ users = <<>>
    /\ heap = <<>>
    /\ tokens = <<>>
    /\ file = Snapshot(<<>>, <<>>, <<>>)
    /\ now = 0
    /\ hmac_secret = HmacSecret
    /\ uuids = 0
    /\ outbox = {}
    /\ frame = [t \in Threads |-> IdleFrame]
    /\ last = NoCall
    /\ calls = 0
    /\ accepted = EmptyBag
    /\ registered = EmptyBag
    /\ expiredSeen = {}
    /\ other = Closed
    /\ opens = [n |-> 0, saved |-> TRUE]

Init == InitStore /\ poller = NoPoller

\* a clock whose advance sweeps the expired tokens out of the store
Tick_Mut(limit) ==
    /\ now < limit
    /\ now' = now + 1
    /\ tokens' = [k \in {x \in DOMAIN tokens : now' <= fromisoformat(tokens[x].expiry)}
                    |-> tokens[k]]
    /\ UNCHANGED <<users, heap>>
    /\ file' = Snapshot(users', heap', tokens')
    /\ UNCHANGED <<hmac_secret, ext, uuids, outbox, frame, last, calls, hist>>

\* the clock advances
Tick(limit) ==
    /\ now < limit
    /\ now' = now + 1
    /\ UNCHANGED <<store, hmac_secret, ext, uuids, outbox, frame, last, calls, hist>>

\* ------------------------------------------------------------ the callers
\* The threads are interchangeable: a call starts on the first idle thread.
CanStart(t) == At(t, "idle") /\ (t = MainThread \/ ~At(MainThread, "idle"))

\* a request handler (or the CLI) calls register_user(email, password, name)
CallRegister(t, sc) ==
    /\ CanStart(t) /\ calls < sc.calls
    /\ \E e \in sc.emails, p \in sc.passwords :
          Local(t, StartFrame("register", "r1", e, p, NoToken))
    /\ calls' = calls + 1
    /\ UNCHANGED <<store, now, hmac_secret, ext, uuids, outbox, hist>>

\* the token values a caller can present: those handed to the mailer (a
\* token value cannot be guessed) and a well-formed one that was never issued
Presentable == {p[2] : p \in outbox} \cup {ForgedToken}

\* a request handler (or the CLI) calls verify_email_token(token)
CallVerify(t, sc) ==
    /\ CanStart(t) /\ calls < sc.calls
    /\ \E k \in Presentable :
          Local(t, StartFrame("verify", "v1", "", "", k))
    /\ calls' = calls + 1
    /\ UNCHANGED <<store, now, hmac_secret, ext, uuids, outbox, hist>>

\* a request handler (or the CLI) calls resend_verification_email(email)
CallResend(t, sc) ==
    /\ CanStart(t) /\ calls < sc.calls
    /\ \E e \in sc.emails :
          Local(t, StartFrame("resend", "s1", e, "", NoToken))
    /\ calls' = calls + 1
    /\ UNCHANGED <<store, now, hmac_secret, ext, uuids, outbox, hist>>

\* a request handler (or the CLI) calls login_user(email, password)
CallLogin(t, sc) ==
    /\ CanStart(t) /\ calls < sc.calls
    /\ \E e \in sc.emails, p \in sc.passwords :
          Local(t, StartFrame("login", "l1", e, p, NoToken))
    /\ calls' = calls + 1
    /\ UNCHANGED <<store, now, hmac_secret, ext, uuids, outbox, hist>>

\* a duplicate check that lets the registration of a known email go on
RegisterCheckExists_Mut(t) ==
    /\ At(t, "r1")
    /\ Goto(t, "r2")
    /\ UNCHANGED <<store, now, hmac_secret, ext, uuids, outbox, calls, hist>>

\* ---------------------------------------------------------- register_user
\* if self.db.get_user(email): return the duplicate error
RegisterCheckExists(t) ==
    /\ At(t, "r1")
    /\ IF get_user(frame[t].email) # NoRef
         THEN Return(t,
                  [success |-> FALSE, error |-> "User with this email already exists"])
         ELSE Goto(t, "r2")
    /\ UNCHANGED <<store, now, hmac_secret, ext, uuids, outbox, calls, hist>>

\* password_hash = sha256(password); user_data = {...}
RegisterBuildUser(t) ==
    /\ At(t, "r2")
    /\ Local(t, [frame[t] EXCEPT !.pc = "r3",
                              !.user_rec = NewUser(frame[t].email, frame[t].password, now)])
    /\ UNCHANGED <<store, now, hmac_secret, ext, uuids, outbox, calls, hist>>

\* add_user that takes every email for a stored one and stores nothing
RegisterAddUserCheck_Mut(t) ==
    /\ At(t, "r3")
    /\ Goto(t, "r5")
    /\ UNCHANGED <<store, now, hmac_secret, ext, uuids, outbox, calls, hist>>

\* add_user: if email in self.data["users"]: return False (the result is ignored)
RegisterAddUserCheck(t) ==
    /\ At(t, "r3")
    /\ IF frame[t].email \in DOMAIN users THEN Goto(t, "r5") ELSE Goto(t, "r4")
    /\ UNCHANGED <<store, now, hmac_secret, ext, uuids, outbox, calls, hist>>

\* add_user that stores the record under the user's name, not the email
RegisterAddUserStore_Mut(t) ==
    /\ At(t, "r4")
    /\ LET ref == Cardinality(DOMAIN heap) + 1
           e == frame[t].user_rec.name IN
        /\ heap' = (ref :> frame[t].user_rec) @@ heap
        /\ users' = (e :> ref) @@ [x \in DOMAIN users \ {e} |-> users[x]]
        /\ Local(t, [frame[t] EXCEPT !.pc = "r5", !.user_data = ref])
    /\ tokens' = tokens
    /\ file' = Snapshot(users', heap', tokens')
    /\ UNCHANGED <<now, hmac_secret, ext, uuids, outbox, calls, hist>>

\* add_user: self.data["users"][email] = user_data; self._save_db()
RegisterAddUserStore(t) ==
    /\ At(t, "r4")
    /\ LET ref == Cardinality(DOMAIN heap) + 1
           e == frame[t].email IN
        /\ heap' = (ref :> frame[t].user_rec) @@ heap
        /\ users' = (e :> ref) @@ [x \in DOMAIN users \ {e} |-> users[x]]
        /\ Local(t, [frame[t] EXCEPT !.pc = "r5", !.user_data = ref])
    /\ tokens' = tokens
    /\ file' = Snapshot(users', heap', tokens')
    /\ UNCHANGED <<now, hmac_secret, ext, uuids, outbox, calls, hist>>

\* a token generator that sets the expiry to the issue time
GenerateToken_Mut(t, next) ==
    /\ uuids' = uuids + 1
    /\ Local(t, [frame[t] EXCEPT !.pc = next,
                              !.token = MakeToken(frame[t].email, uuids + 1, now),
                              !.expiry = now])

\* _generate_verification_token(email): (token, expiry) in the thread's frame
GenerateToken(t, next) ==
    /\ uuids' = uuids + 1
    /\ Local(t, [frame[t] EXCEPT !.pc = next,
                              !.token = MakeToken(frame[t].email, uuids + 1, now),
                              !.expiry = now + TokenExpiryHours])

\* token, expiry = self._generate_verification_token(email)
RegisterGenerateToken(t) ==
    /\ At(t, "r5")
    /\ GenerateToken(t, "r6")
    /\ UNCHANGED <<store, now, hmac_secret, ext, outbox, calls, hist>>

\* self.db.add_token(token, email, expiry)
StoreToken(t, next) ==
    /\ tokens' = add_token(tokens, frame[t].token, frame[t].email, frame[t].expiry)
    /\ UNCHANGED <<users, heap>>
    /\ file' = Snapshot(users', heap', tokens')
    /\ Goto(t, next)

RegisterAddToken(t) ==
    /\ At(t, "r6")
    /\ StoreToken(t, "r7")
    /\ UNCHANGED <<now, hmac_secret, ext, uuids, outbox, calls, hist>>

\* send_verification_email: delivery succeeds or fails, as the provider decides
SendResult(ok) ==
    IF ok THEN [success |-> TRUE, message |-> "Verification email sent successfully"]
          ELSE [success |-> FALSE, error |-> "Failed to send email"]

\* a registration that takes its token back and fails when the delivery fails
RegisterSendEmail_Mut(t) ==
    /\ At(t, "r7")
    /\ outbox' = outbox \cup {<<frame[t].email, frame[t].token>>}
    /\ \E ok \in BOOLEAN :
          /\ Return(t,
                [success |-> ok,
                 message |-> "User registered successfully. Verification email sent.",
                 email_sent |-> Get(SendResult(ok), "success", FALSE),
                 email_error |-> Get(SendResult(ok), "error", None)])
          /\ tokens' = IF ok THEN tokens
                       ELSE [k \in DOMAIN tokens \ {frame[t].token} |-> tokens[k]]
          /\ registered' = IF ok THEN registered (+) SetToBag({frame[t].email})
                           ELSE registered
    /\ UNCHANGED <<users, heap>>
    /\ file' = Snapshot(users', heap', tokens')
    /\ UNCHANGED <<now, hmac_secret, ext, uuids, calls, accepted, expiredSeen>>

\* email_result = self.send_verification_email(...); return success
RegisterSendEmail(t) ==
    /\ At(t, "r7")
    /\ outbox' = outbox \cup {<<frame[t].email, frame[t].token>>}
    /\ \E ok \in BOOLEAN :
          Return(t,
              [success |-> TRUE,
               message |-> "User registered successfully. Verification email sent.",
               email_sent |-> Get(SendResult(ok), "success", FALSE),
               email_error |-> Get(SendResult(ok), "error", None)])
    /\ registered' = registered (+) SetToBag({frame[t].email})
    /\ UNCHANGED <<store, now, hmac_secret, ext, uuids, calls, accepted, expiredSeen>>

\* ----------------------------------------------------- verify_email_token
\* the rejections verify_email_token returns
InvalidToken == [success |-> FALSE, error |-> "Invalid verification token"]
TokenUsed == [success |-> FALSE, error |-> "Token has already been used"]
TokenExpired == [success |-> FALSE, error |-> "Verification token has expired"]
IdentityMissing == [success |-> FALSE, error |-> "User not found"]

\* a lookup that also recomputes the signature with the secret of the service
VerifyLookup_Mut(t) ==
    /\ At(t, "v1")
    /\ IF /\ frame[t].token \in DOMAIN tokens
          /\ frame[t].token[3] = hmac_sign(hmac_secret, tokens[frame[t].token].email,
                                           frame[t].token[1], frame[t].token[2])
         THEN Local(t, [frame[t] EXCEPT !.pc = "v2", !.token_data = frame[t].token])
         ELSE Return(t, InvalidToken)
    /\ UNCHANGED <<store, now, hmac_secret, ext, uuids, outbox, calls, hist>>

\* token_data = self.db.get_token_data(token); if not token_data: return invalid
VerifyLookup(t) ==
    /\ At(t, "v1")
    /\ IF frame[t].token \in DOMAIN tokens
         THEN Local(t, [frame[t] EXCEPT !.pc = "v2", !.token_data = frame[t].token])
         ELSE Return(t, InvalidToken)
    /\ UNCHANGED <<store, now, hmac_secret, ext, uuids, outbox, calls, hist>>

\* a used check that looks at the expiry first
VerifyCheckUsed_Mut(t) ==
    /\ At(t, "v2")
    /\ IF IsExpired(now, tokens[frame[t].token_data].expiry)
         THEN Return(t, TokenExpired)
         ELSE IF tokens[frame[t].token_data].used
                THEN Return(t, TokenUsed)
                ELSE Goto(t, "v3")
    /\ UNCHANGED <<store, now, hmac_secret, ext, uuids, outbox, calls, hist>>

\* if token_data.get("used", False): return already used
VerifyCheckUsed(t) ==
    /\ At(t, "v2")
    /\ IF tokens[frame[t].token_data].used
         THEN Return(t, TokenUsed)
         ELSE Goto(t, "v3")
    /\ UNCHANGED <<store, now, hmac_secret, ext, uuids, outbox, calls, hist>>

\* an expiry check that marks the expired token used before it rejects
VerifyCheckExpiry_Mut(t) ==
    /\ At(t, "v3")
    /\ IF IsExpired(now, tokens[frame[t].token_data].expiry)
         THEN /\ Return(t, TokenExpired)
              /\ expiredSeen' = expiredSeen \cup {frame[t].token}
              /\ tokens' = mark_token_used(tokens, frame[t].token)
         ELSE /\ Goto(t, "v4")
              /\ UNCHANGED <<expiredSeen, tokens>>
    /\ UNCHANGED <<users, heap>>
    /\ file' = Snapshot(users', heap', tokens')
    /\ UNCHANGED <<now, hmac_secret, ext, uuids, outbox, calls, accepted, registered>>

\* expiry = fromisoformat(token_data["expiry"]); if datetime.now() > expiry: return expired
VerifyCheckExpiry(t) ==
    /\ At(t, "v3")
    /\ IF IsExpired(now, tokens[frame[t].token_data].expiry)
         THEN /\ Return(t, TokenExpired)
              /\ expiredSeen' = expiredSeen \cup {frame[t].token}
         ELSE /\ Goto(t, "v4")
              /\ UNCHANGED expiredSeen
    /\ UNCHANGED <<store, now, hmac_secret, ext, uuids, outbox, calls, accepted, registered>>

\* a redemption that rejects the token of an identity that is verified already
VerifyGetUser_Mut(t) ==
    /\ At(t, "v4")
    /\ LET email == tokens[frame[t].token_data].email IN
         IF get_user(email) # NoRef /\ ~heap[get_user(email)].verified
           THEN Local(t, [frame[t] EXCEPT !.pc = "v5", !.email = email,
                                       !.user_data = get_user(email)])
           ELSE Return(t, IdentityMissing)
    /\ UNCHANGED <<store, now, hmac_secret, ext, uuids, outbox, calls, hist>>

\* email = token_data["email"]; user_data = self.db.get_user(email); if not user_data: return
VerifyGetUser(t) ==
    /\ At(t, "v4")
    /\ LET email == tokens[frame[t].token_data].email IN
         IF get_user(email) # NoRef
           THEN Local(t, [frame[t] EXCEPT !.pc = "v5", !.email = email,
                                       !.user_data = get_user(email)])
           ELSE Return(t, IdentityMissing)
    /\ UNCHANGED <<store, now, hmac_secret, ext, uuids, outbox, calls, hist>>

\* user_data["verified"] = True   (user_data is the stored dict itself)
VerifySetVerified(t) ==
    /\ At(t, "v5")
    /\ heap' = [heap EXCEPT ![frame[t].user_data].verified = TRUE]
    /\ Local(t, [frame[t] EXCEPT !.pc = "v6",
                              !.flipped = ~heap[frame[t].user_data].verified])
    /\ UNCHANGED <<users, tokens, file, now, hmac_secret, ext, uuids, outbox, calls, hist>>

\* self.db.update_user(email, user_data)
VerifyUpdateUser(t) ==
    /\ At(t, "v6")
    /\ heap' = update_user(heap, users, frame[t].email, frame[t].user_data)
    /\ UNCHANGED <<users, tokens>>
    /\ file' = Snapshot(users', heap', tokens')
    /\ Goto(t, "v7")
    /\ UNCHANGED <<now, hmac_secret, ext, uuids, outbox, calls, hist>>

\* self.db.mark_token_used(token); return success
VerifyMarkUsed(t) ==
    /\ At(t, "v7")
    /\ tokens' = mark_token_used(tokens, frame[t].token)
    /\ UNCHANGED <<users, heap>>
    /\ file' = Snapshot(users', heap', tokens')
    /\ Return(t,
           [success |-> TRUE, message |-> "Email verified successfully",
            email |-> frame[t].email])
    /\ accepted' = accepted (+) SetToBag({frame[t].token})
    /\ UNCHANGED <<now, hmac_secret, ext, uuids, outbox, calls, registered, expiredSeen>>

\* ---------------------------------------------- resend_verification_email
\* user_data = self.db.get_user(email); if not user_data: return not found
ResendGetUser(t) ==
    /\ At(t, "s1")
    /\ IF get_user(frame[t].email) # NoRef
         THEN Local(t, [frame[t] EXCEPT !.pc = "s2", !.user_data = get_user(frame[t].email)])
         ELSE Return(t,
                  [success |-> FALSE, error |-> "User not found"])
    /\ UNCHANGED <<store, now, hmac_secret, ext, uuids, outbox, calls, hist>>

\* a resend that does not look at the verified flag
ResendCheckVerified_Mut(t) ==
    /\ At(t, "s2")
    /\ Goto(t, "s3")
    /\ UNCHANGED <<store, now, hmac_secret, ext, uuids, outbox, calls, hist>>

\* if user_data.get("verified", False): return already verified
ResendCheckVerified(t) ==
    /\ At(t, "s2")
    /\ IF heap[frame[t].user_data].verified
         THEN Return(t,
                  [success |-> FALSE, error |-> "User is already verified"])
         ELSE Goto(t, "s3")
    /\ UNCHANGED <<store, now, hmac_secret, ext, uuids, outbox, calls, hist>>

\* token, expiry = self._generate_verification_token(email)
ResendGenerateToken(t) ==
    /\ At(t, "s3")
    /\ GenerateToken(t, "s4")
    /\ UNCHANGED <<store, now, hmac_secret, ext, outbox, calls, hist>>

\* a resend that sends the token before it stores it
ResendAddToken_Mut(t) ==
    /\ At(t, "s4")
    /\ outbox' = outbox \cup {<<frame[t].email, frame[t].token>>}
    /\ Goto(t, "s5")
    /\ UNCHANGED <<store, now, hmac_secret, ext, uuids, calls, hist>>

\* self.db.add_token(token, email, expiry)
ResendAddToken(t) ==
    /\ At(t, "s4")
    /\ StoreToken(t, "s5")
    /\ UNCHANGED <<now, hmac_secret, ext, uuids, outbox, calls, hist>>

\* email_result = self.send_verification_email(...); return success
ResendSendEmail(t) ==
    /\ At(t, "s5")
    /\ outbox' = outbox \cup {<<frame[t].email, frame[t].token>>}
    /\ \E ok \in BOOLEAN :
          Return(t,
              [success |-> TRUE, message |-> "Verification email resent",
               email_sent |-> Get(SendResult(ok), "success", FALSE),
               email_error |-> Get(SendResult(ok), "error", None)])
    /\ UNCHANGED <<store, now, hmac_secret, ext, uuids, calls, hist>>

\* ------------------------------------------------------------- login_user
\* a lookup that tells the caller that the email is not registered
LoginGetUser_Mut(t) ==
    /\ At(t, "l1")
    /\ IF get_user(frame[t].email) # NoRef
         THEN Local(t, [frame[t] EXCEPT !.pc = "l2", !.user_data = get_user(frame[t].email)])
         ELSE Return(t, [success |-> FALSE, error |-> "User not found"])
    /\ UNCHANGED <<store, now, hmac_secret, ext, uuids, outbox, calls, hist>>

\* user_data = self.db.get_user(email); if not user_data: return invalid
LoginGetUser(t) ==
    /\ At(t, "l1")
    /\ IF get_user(frame[t].email) # NoRef
         THEN Local(t, [frame[t] EXCEPT !.pc = "l2", !.user_data = get_user(frame[t].email)])
         ELSE Return(t,
                  [success |-> FALSE, error |-> "Invalid email or password"])
    /\ UNCHANGED <<store, now, hmac_secret, ext, uuids, outbox, calls, hist>>

\* a login that does not look at the verified flag
LoginCheckVerified_Mut(t) ==
    /\ At(t, "l2")
    /\ Goto(t, "l3")
    /\ UNCHANGED <<store, now, hmac_secret, ext, uuids, outbox, calls, hist>>

\* if not user_data.get("verified", False): return needs verification
LoginCheckVerified(t) ==
    /\ At(t, "l2")
    /\ IF ~heap[frame[t].user_data].verified
         THEN Return(t,
                  [success |-> FALSE, error |-> "Email not verified",
                   needs_verification |-> TRUE, email |-> frame[t].email])
         ELSE Goto(t, "l3")
    /\ UNCHANGED <<store, now, hmac_secret, ext, uuids, outbox, calls, hist>>

\* a password check with an error message of its own
LoginCheckPassword_Mut(t) ==
    /\ At(t, "l3")
    /\ IF sha256(frame[t].password) # heap[frame[t].user_data].password_hash
         THEN Return(t, [success |-> FALSE, error |-> "Invalid password"])
         ELSE Goto(t, "l4")
    /\ UNCHANGED <<store, now, hmac_secret, ext, uuids, outbox, calls, hist>>

\* if sha256(password) != user_data.get("password_hash"): return invalid
LoginCheckPassword(t) ==
    /\ At(t, "l3")
    /\ IF sha256(frame[t].password) # heap[frame[t].user_data].password_hash
         THEN Return(t,
                  [success |-> FALSE, error |-> "Invalid email or password"])
         ELSE Goto(t, "l4")
    /\ UNCHANGED <<store, now, hmac_secret, ext, uuids, outbox, calls, hist>>

\* a login that stamps created_at together with last_login
LoginSetLastLogin_Mut(t) ==
    /\ At(t, "l4")
    /\ heap' = [heap EXCEPT ![frame[t].user_data].last_login = isoformat(now),
                            ![frame[t].user_data].created_at = isoformat(now)]
    /\ Goto(t, "l5")
    /\ UNCHANGED <<users, tokens, file, now, hmac_secret, ext, uuids, outbox, calls, hist>>

\* user_data["last_login"] = datetime.now().isoformat()
LoginSetLastLogin(t) ==
    /\ At(t, "l4")
    /\ heap' = [heap EXCEPT ![frame[t].user_data].last_login = isoformat(now)]
    /\ Goto(t, "l5")
    /\ UNCHANGED <<users, tokens, file, now, hmac_secret, ext, uuids, outbox, calls, hist>>

\* a login that also drops the tokens issued for its identity
LoginUpdateUser_Mut(t) ==
    /\ At(t, "l5")
    /\ heap' = update_user(heap, users, frame[t].email, frame[t].user_data)
    /\ tokens' = [k \in {j \in DOMAIN tokens : tokens[j].email # frame[t].email} |-> tokens[k]]
    /\ UNCHANGED users
    /\ file' = Snapshot(users', heap', tokens')
    /\ Return(t,
           [success |-> TRUE, message |-> "Login successful",
            user |-> [email |-> frame[t].email,
                      name |-> heap[frame[t].user_data].name,
                      verified |-> heap[frame[t].user_data].verified]])
    /\ UNCHANGED <<now, hmac_secret, ext, uuids, outbox, calls, hist>>

\* self.db.update_user(email, user_data); return success
LoginUpdateUser(t) ==
    /\ At(t, "l5")
    /\ heap' = update_user(heap, users, frame[t].email, frame[t].user_data)
    /\ UNCHANGED <<users, tokens>>
    /\ file' = Snapshot(users', heap', tokens')
    /\ Return(t,
           [success |-> TRUE, message |-> "Login successful",
            user |-> [email |-> frame[t].email,
                      name |-> heap[frame[t].user_data].name,
                      verified |-> heap[frame[t].user_data].verified]])
    /\ UNCHANGED <<now, hmac_secret, ext, uuids, outbox, calls, hist>>

\* ---------------------------------------------------------- specification
\* one statement of thread t
Step(t, sc) ==
    \/ CallRegister(t, sc) \/ CallVerify(t, sc) \/ CallResend(t, sc) \/ CallLogin(t, sc)
    \/ RegisterCheckExists(t) \/ RegisterBuildUser(t) \/ RegisterAddUserCheck(t)
    \/ RegisterAddUserStore(t) \/ RegisterGenerateToken(t) \/ RegisterAddToken(t)
    \/ RegisterSendEmail(t)
    \/ VerifyLookup(t) \/ VerifyCheckUsed(t) \/ VerifyCheckExpiry(t) \/ VerifyGetUser(t)
    \/ VerifySetVerified(t) \/ VerifyUpdateUser(t) \/ VerifyMarkUsed(t)
    \/ ResendGetUser(t) \/ ResendCheckVerified(t) \/ ResendGenerateToken(t)
    \/ ResendAddToken(t) \/ ResendSendEmail(t)
    \/ LoginGetUser(t) \/ LoginCheckVerified(t) \/ LoginCheckPassword(t)
    \/ LoginSetLastLogin(t) \/ LoginUpdateUser(t)

\* concurrent request threads on one service object
Next == Tick(ConcTime) \/ \E t \in Threads : Step(t, ConcScope)

Spec == Init /\ [][Next]_vars

\* one caller: the calls run one after the other
NextSeq == Tick(MaxTime) \/ Step(MainThread, SeqScope)

SpecSeq == Init /\ [][NextSeq]_vars

\* json.load of db_file: the user dicts and the tokens as they were saved
load_users(hp, us, f) ==
    [r \in DOMAIN hp |->
        IF \E e \in DOMAIN f.users : e \in DOMAIN us /\ us[e] = r
          THEN f.users[CHOOSE e \in DOMAIN f.users : e \in DOMAIN us /\ us[e] = r]
          ELSE hp[r]]

\* the next command runs in a new process: the service is constructed anew
\* over the same db_file (SimpleDatabase._load_db), with another HMAC_SECRET
Restart ==
    /\ \A t \in Threads : At(t, "idle")
    /\ \E s \in Secrets \ {hmac_secret} : hmac_secret' = s
    /\ users' = [e \in DOMAIN file.users |-> users[e]]
    /\ heap' = load_users(heap, users, file)
    /\ tokens' = file.tokens
    /\ UNCHANGED <<file, now, ext, uuids, outbox, frame, last, calls, hist>>

\* one caller, one command per process, HMAC_SECRET changed between commands
NextKeys == Tick(MaxTime) \/ Step(MainThread, KeyScope) \/ Restart

SpecKeys == Init /\ [][NextKeys]_vars

\* one caller who deals with one identity, for one call more
NextOne == Tick(MaxTime) \/ Step(MainThread, OneScope)

SpecOne == Init /\ [][NextOne]_vars

\* ------------------------------------------------- instances on one db_file
\* db_file does not exist (FileNotFoundError)
Missing == [error |-> "FileNotFoundError"]
\* db_file holds text that json.load rejects (json.JSONDecodeError)
NotJson == [error |-> "JSONDecodeError"]
Readable(f) == "error" \notin DOMAIN f

\* {"users": {}, "tokens": {}}
EmptyStore == [users |-> <<>>, tokens |-> <<>>]

\* a constructor that does not read the file
load_db_Mut(f) == EmptyStore

\* SimpleDatabase._load_db: self.data after construction on a file holding f
load_db(f) == IF Readable(f) THEN f ELSE EmptyStore

\* the user dicts of a store d loaded by json.load, one new dict per email
Held(d) == SelectSeq(<<"alice@example.com", "bob@example.com">>,
                     LAMBDA e : e \in DOMAIN d.users)
heap_of(d) == [r \in 1..Len(Held(d)) |-> d.users[Held(d)[r]]]
users_of(d) == [e \in DOMAIN d.users |-> CHOOSE r \in 1..Len(Held(d)) : Held(d)[r] = e]

\* SimpleDatabase(db_file) is constructed once more (a CLI command next to the
\* running server): __init__ calls _load_db, which saves the empty store if
\* the file cannot be read; the instance that was in use stays open
Open ==
    /\ \A t \in Threads : At(t, "idle")
    /\ opens.n < MaxOpens
    /\ other' = Snapshot(users, heap, tokens)
    /\ users' = users_of(load_db(file))
    /\ heap' = heap_of(load_db(file))
    /\ tokens' = load_db(file).tokens
    /\ IF Readable(file)
         THEN file' = file
         ELSE file' = Snapshot(users', heap', tokens')
    /\ opens' = [n |-> opens.n + 1, saved |-> ~Readable(file)]
    /\ UNCHANGED <<now, hmac_secret, poller, uuids, outbox, frame, last, calls, hist>>

\* the next call goes to the other of the two open instances
Swap ==
    /\ \A t \in Threads : At(t, "idle")
    /\ other # Closed
    /\ other' = Snapshot(users, heap, tokens)
    /\ users' = users_of(other)
    /\ heap' = heap_of(other)
    /\ tokens' = other.tokens
    /\ UNCHANGED <<file, opens, now, hmac_secret, poller, uuids, outbox, frame, last, calls, hist>>

\* db_file is removed, or overwritten with text that is not JSON, from outside
Damage ==
    /\ \E f \in {Missing, NotJson} \ {file} : file' = f
    /\ UNCHANGED <<users, heap, tokens, now, hmac_secret, ext, uuids, outbox, frame, last,
                   calls, hist>>

\* one caller at a time, two instances open on one db_file
NextFiles == Step(MainThread, FileScope) \/ Open \/ Swap \/ Damage

SpecFiles == Init /\ [][NextFiles]_vars

\* ------------------------------------------------------ the polling clients
\* how the call of a client function stands: running, returned, raised
InCall == [pending |-> TRUE]
ReturnNone == [returns |-> "None"]
Return_(v) == [returns |-> "value", value |-> v]
Raised == [raises |-> "HTTPError"]

\* the client function returns or raises
Finish(res) == poller' = [poller EXCEPT !.pc = "done", !.result = res]

Running(fn, loc) == poller.fn = fn /\ poller.pc = loc

\* bodies of the GET /sms response: response.json()
SmsBodies ==
    {[message |-> "no data"], [data |-> <<>>], [data |-> <<"sms1">>],
     [data |-> <<"sms2", "sms1">>]}

\* response.raise_for_status() raises on an error status
HttpError == [status |-> 500]
Ok(body) == [status |-> 200, json |-> body]

\* get_sms_for_verification(bearer_token, phone_number, reservation_id, retries, delay)
SmsCall(retries, delay) ==
    [fn |-> "get_sms", retries |-> retries, delay |-> delay, pc |-> "for", i |-> 0,
     polls |-> 0, empty |-> 0, slept |-> 0, data |-> [message |-> "no data"],
     result |-> InCall]

\* a loop that runs once more than range(retries)
SmsFor_Mut ==
    /\ Running("get_sms", "for")
    /\ IF poller.i <= poller.retries
         THEN poller' = [poller EXCEPT !.pc = "get"]
         ELSE Finish(ReturnNone)
    /\ UNCHANGED service

\* for i in range(retries): ...; after the loop: return None
SmsFor ==
    /\ Running("get_sms", "for")
    /\ IF poller.i < poller.retries
         THEN poller' = [poller EXCEPT !.pc = "get"]
         ELSE Finish(ReturnNone)
    /\ UNCHANGED service

\* response = requests.get(...); response.raise_for_status(); data = response.json()
SmsGet ==
    /\ Running("get_sms", "get")
    /\ \E response \in {HttpError} \cup {Ok(b) : b \in SmsBodies} :
          IF response.status # 200
            THEN poller' = [poller EXCEPT !.pc = "done", !.result = Raised,
                                          !.polls = poller.polls + 1]
            ELSE poller' = [poller EXCEPT !.pc = "if", !.data = response.json,
                                          !.polls = poller.polls + 1]
    /\ UNCHANGED service

\* if data.get("data") and len(data["data"]) > 0: sms = data["data"][0]; return sms
SmsIf ==
    /\ Running("get_sms", "if")
    /\ IF Get(poller.data, "data", <<>>) # <<>> /\ Len(poller.data.data) > 0
         THEN Finish(Return_(poller.data.data[1]))
         ELSE poller' = [poller EXCEPT !.pc = "sleep", !.empty = poller.empty + 1]
    /\ UNCHANGED service

\* time.sleep(delay), then the next i
SmsSleep ==
    /\ Running("get_sms", "sleep")
    /\ poller' = [poller EXCEPT !.pc = "for", !.i = poller.i + 1,
                                !.slept = poller.slept + poller.delay]
    /\ UNCHANGED service

\* bodies of the GET /verifications/{id} response
VerificationBodies ==
    {[state |-> "verificationPending"],
     [state |-> "verificationPending", sms |-> [href |-> "sms-url"]],
     [state |-> "verificationComplete", sms |-> [href |-> "sms-url"]],
     [state |-> "verificationComplete", sms |-> [method |-> "GET"]]}

\* bodies of the response of the SMS URL: messages with and without parsedCode
CodeSmsBodies ==
    {[data |-> <<>>], [data |-> <<[parsedCode |-> "123456"]>>],
     [data |-> <<[parsedCode |-> ""]>>], [data |-> <<[smsContent |-> "hello"]>>]}

\* retrieve_verification_code(token, ..., max_attempts, polling_interval)
CodeCall(max_attempts, polling_interval) ==
    [fn |-> "retrieve_code", max_attempts |-> max_attempts,
     polling_interval |-> polling_interval, pc |-> "for", attempt |-> 1,
     attempts |-> 0, errors |-> 0, sleeps |-> 0,
     verification_data |-> [state |-> "verificationPending"],
     sms |-> [smsContent |-> "hello"], result |-> InCall]

\* for attempt in range(1, max_attempts + 1): ...; after the loop: return None
CodeFor ==
    /\ Running("retrieve_code", "for")
    /\ IF poller.attempt <= poller.max_attempts
         THEN poller' = [poller EXCEPT !.pc = "get"]
         ELSE Finish(ReturnNone)
    /\ UNCHANGED service

\* response = requests.get(url); response.raise_for_status();
\* verification_data = response.json(); if it has an sms href: request it
CodeGet ==
    /\ Running("retrieve_code", "get")
    /\ \E response \in {HttpError} \cup {Ok(b) : b \in VerificationBodies} :
          IF response.status # 200
            THEN poller' = [poller EXCEPT !.pc = "except",
                                          !.attempts = poller.attempts + 1]
            ELSE poller' = [poller EXCEPT
                    !.pc = IF Get(Get(response.json, "sms", [none |-> TRUE]), "href", "") # ""
                             THEN "sms" ELSE "wait",
                    !.verification_data = response.json,
                    !.attempts = poller.attempts + 1]
    /\ UNCHANGED service

\* sms_response = requests.get(sms_url); raise_for_status(); sms_data = json();
\* if it has data: sms = data[0]; code = sms.get("parsedCode"); if code: return {...}
CodeSms ==
    /\ Running("retrieve_code", "sms")
    /\ \E sms_response \in {HttpError} \cup {Ok(b) : b \in CodeSmsBodies} :
          IF sms_response.status # 200
            THEN poller' = [poller EXCEPT !.pc = "except"]
            ELSE IF Len(sms_response.json.data) > 0
                   THEN LET sms == sms_response.json.data[1]
                            code == Get(sms, "parsedCode", "") IN
                        IF code # ""
                          THEN poller' = [poller EXCEPT
                                  !.pc = "done", !.sms = sms,
                                  !.result = Return_(
                                      [service |-> "service_name", phone |-> "phone_number",
                                       code |-> code, sms |-> sms,
                                       verification_status |->
                                           Get(poller.verification_data, "state", None)])]
                          ELSE poller' = [poller EXCEPT !.pc = "wait", !.sms = sms]
                   ELSE poller' = [poller EXCEPT !.pc = "wait"]
    /\ UNCHANGED service

\* if attempt < max_attempts: time.sleep(polling_interval); then the next attempt
CodeWait ==
    /\ Running("retrieve_code", "wait")
    /\ poller' = [poller EXCEPT
            !.pc = "for", !.attempt = poller.attempt + 1,
            !.sleeps = IF poller.attempt < poller.max_attempts
                         THEN poller.sleeps + 1 ELSE poller.sleeps]
    /\ UNCHANGED service

\* a handler that lets the exception of the attempt out of the function
CodeExcept_Mut ==
    /\ Running("retrieve_code", "except")
    /\ Finish(Raised)
    /\ UNCHANGED service

\* except Exception as e: if attempt < max_attempts: time.sleep(polling_interval)
CodeExcept ==
    /\ Running("retrieve_code", "except")
    /\ poller' = [poller EXCEPT
            !.pc = "for", !.attempt = poller.attempt + 1,
            !.errors = poller.errors + 1,
            !.sleeps = IF poller.attempt < poller.max_attempts
                         THEN poller.sleeps + 1 ELSE poller.sleeps]
    /\ UNCHANGED service

\* requests.get raises (no connection)
ConnectionError == [status |-> 0]
Raises(response) == response.status = 0

\* bodies of the GET /messages response: the inbox, or JSON without it
Acme == [id |-> "m1", from |-> [address |-> "noreply@acme.com"], subject |-> "Your code"]
News == [id |-> "m2", from |-> [address |-> "news@other.org"], subject |-> "Weekly"]
MessagesBodies ==
    {[detail |-> "none"], ("hydra:member" :> <<>>), ("hydra:member" :> <<Acme>>),
     ("hydra:member" :> <<News, Acme>>), ("hydra:member" :> <<Acme, News>>)}

\* bodies of the GET /messages/{id} response
ContentBodies ==
    {[html |-> <<"Your verification code is: 123456">>, text |-> ""],
     [html |-> <<"">>, text |-> "code: 654321"],
     [text |-> "Welcome"],
     [html |-> <<>>, text |-> "Welcome"]}

\* sub.lower() in s.lower(), for the strings above
Contains(sub, str) == <<sub, str>> \in {<<"acme", "noreply@acme.com">>}

\* _extract_verification_code(content): the group of the first pattern found
extract_verification_code(content) ==
    CASE content = "Your verification code is: 123456" -> "123456"
      [] content = "code: 654321" -> "654321"
      [] OTHER -> None

\* {"success": False, "error": "Not authenticated"}
NotAuthenticated == [success |-> FALSE, error |-> "Not authenticated"]
\* {"success": False, "error": "Failed to get messages. Status code: ..."}
FailedToGet(status) == [success |-> FALSE, error |-> "Failed to get messages", status |-> status]
TimeoutError ==
    [success |-> FALSE, error |-> "Verification email not received within timeout period"]

\* EmailAuthAPI.get_messages(): its result, or the exception of requests.get
get_messages(token, response) ==
    IF token = None THEN NotAuthenticated
    ELSE IF response.status = 200 THEN [success |-> TRUE, data |-> response.json]
    ELSE FailedToGet(response.status)

\* wait_for_verification_email(sender_contains, None, timeout, check_interval)
\* on a client with self.token = token; elapsed is time.time() - start_time,
\* on a clock no request completes within less than one unit of
WaitCall(token, sender_contains, timeout, check_interval) ==
    [fn |-> "wait_email", token |-> token, sender_contains |-> sender_contains,
     timeout |-> timeout, check_interval |-> check_interval,
     pc |-> "while", elapsed |-> 0, polls |-> 0,
     messages_result |-> [success |-> TRUE, data |-> [detail |-> "none"]],
     inbox |-> <<>>, j |-> 1, content |-> [text |-> "Welcome"], result |-> InCall]

\* while time.time() - start_time < timeout: ...; after the loop: return the timeout error
WaitWhile ==
    /\ Running("wait_email", "while")
    /\ IF poller.elapsed < poller.timeout
         THEN poller' = [poller EXCEPT !.pc = "get"]
         ELSE Finish(Return_(TimeoutError))
    /\ UNCHANGED service

\* a wait that tries again after a poll that failed
WaitGetMessages_Mut ==
    /\ Running("wait_email", "get")
    /\ \E d \in 1..MaxLatency,
          response \in {ConnectionError, [status |-> 401]} \cup {Ok(b) : b \in MessagesBodies} :
          LET sent == poller.token # None
              messages_result == get_messages(poller.token, response)
              at == IF sent THEN poller.elapsed + d ELSE poller.elapsed IN
          IF sent /\ Raises(response)
            THEN poller' = [poller EXCEPT !.pc = "done", !.result = Raised, !.elapsed = at,
                                          !.polls = poller.polls + 1]
            ELSE poller' = [poller EXCEPT
                    !.pc = IF messages_result.success
                                /\ "hydra:member" \in DOMAIN messages_result.data
                             THEN "scan" ELSE "sleep",
                    !.messages_result = messages_result,
                    !.inbox = IF messages_result.success
                                 THEN Get(messages_result.data, "hydra:member", <<>>)
                                 ELSE <<>>,
                    !.j = 1, !.elapsed = at, !.polls = poller.polls + 1]
    /\ UNCHANGED service

\* messages_result = self.get_messages(); if not success: return messages_result;
\* messages_data = messages_result.get("data", {}); if "hydra:member" in messages_data: ...
WaitGetMessages ==
    /\ Running("wait_email", "get")
    /\ \E d \in 1..MaxLatency,
          response \in {ConnectionError, [status |-> 401]} \cup {Ok(b) : b \in MessagesBodies} :
          LET sent == poller.token # None
              messages_result == get_messages(poller.token, response)
              at == IF sent THEN poller.elapsed + d ELSE poller.elapsed IN
          IF sent /\ Raises(response)
            THEN poller' = [poller EXCEPT !.pc = "done", !.result = Raised, !.elapsed = at,
                                          !.polls = poller.polls + 1]
            ELSE IF ~Get(messages_result, "success", FALSE)
                   THEN poller' = [poller EXCEPT
                           !.pc = "done", !.result = Return_(messages_result),
                           !.messages_result = messages_result,
                           !.elapsed = at, !.polls = poller.polls + 1]
                   ELSE poller' = [poller EXCEPT
                           !.pc = IF "hydra:member" \in DOMAIN messages_result.data
                                    THEN "scan" ELSE "sleep",
                           !.messages_result = messages_result,
                           !.inbox = Get(messages_result.data, "hydra:member", <<>>),
                           !.j = 1, !.elapsed = at, !.polls = poller.polls + 1]
    /\ UNCHANGED service

\* for message in messages: sender_match = not sender_contains or sender_contains in sender
WaitScan ==
    /\ Running("wait_email", "scan")
    /\ IF poller.j > Len(poller.inbox)
         THEN poller' = [poller EXCEPT !.pc = "sleep"]
         ELSE LET sender == Get(Get(poller.inbox[poller.j], "from", [none |-> TRUE]),
                                "address", "")
                  sender_match == poller.sender_contains = None
                                     \/ Contains(poller.sender_contains, sender) IN
              IF sender_match
                THEN poller' = [poller EXCEPT !.pc = "content"]
                ELSE poller' = [poller EXCEPT !.j = poller.j + 1]
    /\ UNCHANGED service

\* message_result = self.get_message_content(message_id); if not success: continue
WaitContent ==
    /\ Running("wait_email", "content")
    /\ \E d \in 1..MaxLatency,
          response \in {ConnectionError, [status |-> 404]} \cup {Ok(b) : b \in ContentBodies} :
          IF Raises(response)
            THEN poller' = [poller EXCEPT !.pc = "done", !.result = Raised,
                                          !.elapsed = poller.elapsed + d]
            ELSE IF response.status # 200
                   THEN poller' = [poller EXCEPT !.pc = "scan", !.j = poller.j + 1,
                                                 !.elapsed = poller.elapsed + d]
                   ELSE poller' = [poller EXCEPT !.pc = "extract", !.content = response.json,
                                                 !.elapsed = poller.elapsed + d]
    /\ UNCHANGED service

\* html_body, text_body of the content (html[0] of an empty list raises)
HtmlRaises(content) == "html" \in DOMAIN content /\ Len(content.html) = 0
html_body(content) == IF "html" \in DOMAIN content THEN content.html[1] ELSE ""
text_body(content) == Get(content, "text", "")

\* verification_code = extract(html_body) or extract(text_body)
CodeOf(content) ==
    IF extract_verification_code(html_body(content)) # None
      THEN extract_verification_code(html_body(content))
      ELSE extract_verification_code(text_body(content))

\* html_body = ...; self.mark_as_read(message_id); code = ...; if code: return {...}
WaitExtract ==
    /\ Running("wait_email", "extract")
    /\ IF HtmlRaises(poller.content)
         THEN Finish(Raised)
         ELSE \E d \in 1..MaxLatency, response \in {ConnectionError, [status |-> 200]} :
                IF Raises(response)
                  THEN poller' = [poller EXCEPT !.pc = "done", !.result = Raised,
                                                !.elapsed = poller.elapsed + d]
                  ELSE IF CodeOf(poller.content) # None
                         THEN poller' = [poller EXCEPT
                                 !.pc = "done", !.elapsed = poller.elapsed + d,
                                 !.result = Return_(
                                     [success |-> TRUE, code |-> CodeOf(poller.content),
                                      message_id |-> Get(poller.inbox[poller.j], "id", None),
                                      subject |-> Get(poller.inbox[poller.j], "subject", ""),
                                      sender |-> poller.inbox[poller.j].from.address])]
                         ELSE poller' = [poller EXCEPT !.pc = "scan", !.j = poller.j + 1,
                                                       !.elapsed = poller.elapsed + d]
    /\ UNCHANGED service

\* time.sleep(check_interval)
WaitSleep ==
    /\ Running("wait_email", "sleep")
    /\ poller' = [poller EXCEPT !.pc = "while",
                                !.elapsed = poller.elapsed + poller.check_interval]
    /\ UNCHANGED service

\* a script calls one client function, with its arguments
InitClients ==
    /\ InitStore
    /\ poller \in {SmsCall(r, d) : r \in 0..MaxRetries, d \in 0..MaxDelay}
               \cup {CodeCall(m, d) : m \in 0..MaxRetries, d \in 0..MaxDelay}
               \cup {WaitCall(k, c, m, d) : k \in {None, "jwt"}, c \in {None, "acme"},
                                            m \in 0..MaxTimeout, d \in 0..MaxDelay}

NextClients ==
    \/ SmsFor \/ SmsGet \/ SmsIf \/ SmsSleep
    \/ CodeFor \/ CodeGet \/ CodeSms \/ CodeWait \/ CodeExcept
    \/ WaitWhile \/ WaitGetMessages \/ WaitScan \/ WaitContent \/ WaitExtract \/ WaitSleep

\* a request returns or raises, a sleep ends: every step that can be taken is taken
SpecClients == InitClients /\ [][NextClients]_vars /\ WF_vars(NextClients)

\* ------------------------------------------------------------- properties
\* no call is in progress
Quiet == \A t \in Threads : At(t, "idle")

\* the call that returned last was verify_email_token(token) of a stored token
LastVerify == last.op = "verify" /\ last.token \in DOMAIN tokens

\* C1: for every token, at most one verify_email_token call returns success,
\* whatever the interleaving of the calls on the shared store.
C1_SingleUse == \A k \in DOMAIN tokens : CopiesIn(k, accepted) <= 1

\* C2: a verify_email_token(t) call started after a call for the same token
\* returned success is rejected with "Token has already been used", before
\* and after the token's expiry.
C2_UsedAfterAccept == (last.op = "verify" /\ last.afterAccept) => last.result = TokenUsed

\* C2 witness: such a later call has returned, after the token's expiry
C2_Witness ==
    /\ LastVerify /\ last.afterAccept /\ last.result = TokenUsed
    /\ IsExpired(now, tokens[last.token].expiry)

\* C3: of the register_user calls for one email, at most one returns success.
C3_OneRegistration == \A e \in Emails : CopiesIn(e, registered) <= 1

\* C4: after any sequence of register_user calls at most one identity record
\* was ever created per email, and it is the record the store holds for it.
C4_Uniqueness ==
    \A e \in Emails :
        /\ Cardinality({r \in DOMAIN heap : heap[r].email = e}) <= 1
        /\ e \in DOMAIN users => heap[users[e]].email = e

\* C4 witness: a second registration of a registered email was rejected while
\* another email is registered too
C4_Witness ==
    /\ Quiet /\ last.op = "register" /\ ~last.result.success
    /\ Cardinality(DOMAIN users) = 2

\* C5: the commit of a redemption is one step: no login succeeds on the
\* strength of a redemption that has set verified and not yet marked its
\* token used.
C5_AtomicCommit ==
    ~ \E t \in Threads :
        /\ frame[t].pc \in {"v6", "v7"} /\ frame[t].flipped
        /\ ~tokens[frame[t].token].used
        /\ last.op = "login" /\ last.result.success /\ last.email = frame[t].email

\* C6: once the verified flag of an identity is true, no step of any
\* interleaving of the four operations sets it back to false.
C6_VerifiedMonotonic == [][\A e \in Emails : Verified(e) => Verified(e)']_vars

\* C7: a stored token stays stored, a new token starts unused, and a used
\* flag that is true stays true, whatever operation takes the step.
C7_UsedMonotonic ==
    [][/\ \A k \in DOMAIN tokens :
            k \in DOMAIN tokens' /\ (tokens[k].used => tokens'[k].used)
       /\ \A k \in DOMAIN tokens' \ DOMAIN tokens : ~tokens'[k].used]_vars

\* C7 witness: a register or resend has just stored a token drawn after the
\* token of a redemption that was committed
C7_Witness ==
    \E t \in Threads, k \in DOMAIN tokens :
        /\ frame[t].pc \in {"r7", "s5"} /\ frame[t].token \in DOMAIN tokens
        /\ tokens[k].used /\ frame[t].token[1] > k[1]
        /\ ~tokens[frame[t].token].used

\* the clock is past the stored expiry of token k
PastExpiry(k) == now > fromisoformat(tokens[k].expiry)

\* C8: a redemption of a never-consumed token called after its expiry is
\* rejected as expired and changes neither the token nor the verified flag;
\* no redemption is rejected as expired at a time up to the expiry; a token
\* once rejected as expired is not accepted by a later call.
C8_Expiry ==
    LastVerify =>
        /\ (last.unusedAtStart /\ last.lateAtStart) => last.result = TokenExpired
        /\ (Quiet /\ last.unusedAtStart /\ last.lateAtStart) =>
              /\ ~tokens[last.token].used
              /\ Verified(tokens[last.token].email) = last.verifiedAtStart
        /\ last.result = TokenExpired => PastExpiry(last.token)
        /\ last.afterExpired => ~last.result.success

\* C8 witness: an expired, never-consumed token of an unverified identity
\* was rejected as expired for the second time
C8_Witness ==
    /\ Quiet /\ LastVerify /\ last.unusedAtStart /\ last.lateAtStart
    /\ last.afterExpired /\ last.result = TokenExpired
    /\ ~Verified(tokens[last.token].email)

\* C9: no step of a verify_email_token call up to and including a rejection
\* changes the store, and every rejection is returned from such a step.
C9_RejectionNoChange ==
    [][\A t \in Threads :
          /\ (frame[t].pc \in {"v1", "v2", "v3", "v4"} /\ frame'[t] # frame[t])
                => UNCHANGED store
          /\ (frame[t].op = "verify" /\ frame[t].pc # "idle" /\ frame'[t].pc = "idle"
              /\ ~last'.result.success)
                => frame[t].pc \in {"v1", "v2", "v3", "v4"}]_vars

\* C9 witness: a token that is not stored was rejected after a stored token
\* had been rejected as expired
C9_Witness ==
    /\ Quiet /\ last.op = "verify" /\ last.result = InvalidToken
    /\ expiredSeen # {}

\* C10: every token handed out stays stored and bound to its email; after a
\* successful resend all tokens of the identity (two or more) are unused;
\* the redemption of a token that was unused at the call succeeds, marks it
\* used and leaves the identity verified, unless the token has expired.
C10_Independence ==
    /\ \A p \in outbox : p[2] \in DOMAIN tokens /\ tokens[p[2]].email = p[1]
    /\ (Quiet /\ last.op = "resend" /\ last.result.success) =>
          /\ \A k \in DOMAIN tokens : tokens[k].email = last.email => ~tokens[k].used
          /\ Cardinality({k \in DOMAIN tokens : tokens[k].email = last.email}) >= 2
    /\ (Quiet /\ LastVerify /\ last.unusedAtStart) =>
          IF last.result.success
            THEN tokens[last.token].used /\ Verified(tokens[last.token].email)
            ELSE last.result = TokenExpired /\ PastExpiry(last.token)

\* C10 witness: the first token of an identity was redeemed with success
\* after a resend had issued a second one, which is still unused
C10_Witness ==
    /\ Quiet /\ LastVerify /\ last.result.success
    /\ \E k \in DOMAIN tokens :
          /\ tokens[k].email = tokens[last.token].email
          /\ k[1] > last.token[1] /\ ~tokens[k].used

\* the rejection register_user returns for a known email
DuplicateSeen ==
    last.op = "register"
    /\ last.result = [success |-> FALSE, error |-> "User with this email already exists"]

\* C11: register_user for an email that has an identity returns the duplicate
\* error from its first check; neither the start of the call nor that check
\* changes the users, the tokens or the file, draws a token or sends an email.
C11_DuplicateNoChange ==
    [][\A t \in Threads :
          /\ (frame[t].pc = "idle" /\ frame'[t].op = "register")
                => UNCHANGED <<store, uuids, outbox>>
          /\ (frame[t].pc = "r1" /\ frame[t].email \in DOMAIN users
              /\ frame'[t] # frame[t])
                => /\ frame'[t].pc = "idle" /\ DuplicateSeen'
                   /\ UNCHANGED <<store, uuids, outbox>>]_vars

\* C11 witness: the registration of an email whose identity is verified was
\* rejected as a duplicate
C11_Witness == Quiet /\ DuplicateSeen /\ Verified(last.email)

\* C12: when register_user has returned success for an email, the store holds
\* the one identity record created for it, not verified, and exactly one
\* token bound to the email: the token returned to the mailer, unused, with
\* an expiry token_expiry_hours after the issue time written in the token.
C12_RegisterCreates ==
    (Quiet /\ last.op = "register" /\ last.result.success) =>
        /\ last.email \in DOMAIN users
        /\ Cardinality({r \in DOMAIN heap : heap[r].email = last.email}) = 1
        /\ ~heap[users[last.email]].verified
        /\ {k \in DOMAIN tokens : tokens[k].email = last.email} = {last.token}
        /\ ~tokens[last.token].used
        /\ timestamp(fromisoformat(tokens[last.token].expiry))
              = last.token[2] + TokenExpiryHours * SecondsPerHour

\* C12 witness: a second email was registered with success, later than the
\* start of the clock
C12_Witness ==
    /\ Quiet /\ last.op = "register" /\ last.result.success
    /\ last.token[2] > 0 /\ Cardinality(DOMAIN users) = 2

\* C13: resend_verification_email(email) returns "User not found" when email
\* has no identity and "User is already verified" when its identity is
\* verified, and only the add_token statement of a call changes the tokens,
\* only its send statement the outbox, and neither is reached by a rejected
\* call; every other call returns success, having passed add_token once,
\* which stored one token that was not stored before, bound to email, unused.
C13_Resend ==
    [][/\ \A t \in Threads :
            (frame[t].op = "resend" /\ frame'[t] # frame[t]) =>
                /\ frame[t].pc # "s4" => UNCHANGED tokens
                /\ frame[t].pc # "s5" => UNCHANGED outbox
                /\ frame'[t].pc = "s5" <=> frame[t].pc = "s4"
                /\ frame[t].pc = "s4" =>
                      /\ frame[t].token \notin DOMAIN tokens
                      /\ DOMAIN tokens' = DOMAIN tokens \cup {frame[t].token}
                      /\ \A k \in DOMAIN tokens : tokens'[k] = tokens[k]
                      /\ tokens'[frame[t].token].email = frame[t].email
                      /\ ~tokens'[frame[t].token].used
                /\ frame'[t].pc = "idle" =>
                      (last'.result.success <=> frame[t].pc = "s5")
       /\ (Quiet /\ last.op = "resend")' =>
            (CASE last.email \notin DOMAIN users ->
                    last.result = [success |-> FALSE, error |-> "User not found"]
               [] Verified(last.email) ->
                    last.result = [success |-> FALSE, error |-> "User is already verified"]
               [] OTHER ->
                    /\ last.result.success
                    /\ last.token \in DOMAIN tokens
                    /\ tokens[last.token].email = last.email
                    /\ ~tokens[last.token].used
                    /\ <<last.email, last.token>> \in outbox)']_vars

\* C13 witness: a resend for a verified identity was rejected
C13_Witness ==
    /\ Quiet /\ last.op = "resend" /\ Verified(last.email)
    /\ last.result = [success |-> FALSE, error |-> "User is already verified"]

\* C14: whenever register_user or resend_verification_email executes
\* add_token, the identity of the token's email is not verified, whatever
\* the interleaving with the redemptions of other threads.
C14_IssuedForUnverified ==
    [][\A t \in Threads :
          (frame[t].pc \in {"r6", "s4"} /\ frame'[t].pc \in {"r7", "s5"})
              => ~Verified(frame[t].email)]_vars

\* C15: in every reachable state every stored token is bound to an email
\* that has an identity in the store.
C15_TokenHasIdentity == \A k \in DOMAIN tokens : tokens[k].email \in DOMAIN users

\* C15 witness: a registration has stored its token while a token of the
\* same identity, issued earlier, is consumed
C15_Witness ==
    \E t \in Threads, k \in DOMAIN tokens :
        /\ frame[t].pc = "r7" /\ frame[t].token \in DOMAIN tokens
        /\ tokens[k].used /\ tokens[k].email = frame[t].email

\* the identity of email exists and its verified flag is not set
Pending(email) == email \in DOMAIN users /\ ~heap[users[email]].verified

\* C16: a login_user call for an identity that is not verified returns the
\* failure with needs_verification True, for a password that matches the
\* stored digest as for one that does not; a call that returned success was
\* made for a verified identity.  (With one caller the identity is, when the
\* call has returned, as the call found it but for last_login.)
C16_PendingLogin ==
    (Quiet /\ last.op = "login") =>
        /\ Pending(last.email) =>
              last.result = [success |-> FALSE, error |-> "Email not verified",
                             needs_verification |-> TRUE, email |-> last.email]
        /\ last.result.success => Verified(last.email)

\* C16 witness: a login with the right password was rejected because the
\* identity is not verified
C16_Witness ==
    /\ Quiet /\ last.op = "login" /\ Pending(last.email) /\ last.passwordOk
    /\ ~last.result.success

\* a login_user call has returned; its password was not the one of a stored
\* identity of its email
WrongLogin == Quiet /\ last.op = "login" /\ ~last.passwordOk

\* C17 (as stated): login_user(e, password) with a password that is not the
\* correct one of e returns the same result whether e is registered or not.
\* A store in which e is not registered returns the "Invalid email or
\* password" failure whatever else it holds, so the two results are the same
\* exactly when a store in which e is registered returns that failure too.
C17_NoEnumeration ==
    WrongLogin =>
        last.result = [success |-> FALSE, error |-> "Invalid email or password"]

\* C17 (amended): the results agree unless e is registered and not verified:
\* a login with a wrong password for an email that is not registered or
\* whose identity is verified returns "Invalid email or password" and
\* nothing else, and a rejection that differs from it is the one returned
\* for an identity that is not verified.
C17_NoEnumerationVerified ==
    /\ (WrongLogin /\ ~Pending(last.email)) =>
          /\ DOMAIN last.result = {"success", "error"}
          /\ ~last.result.success
          /\ last.result.error = "Invalid email or password"
    /\ (WrongLogin /\ last.result.error # "Invalid email or password") =>
          Pending(last.email)

\* C17 witness: a login for an email that is not registered was rejected
\* while another email is registered and verified
C17_Witness ==
    /\ WrongLogin /\ last.email \notin DOMAIN users
    /\ \E e \in DOMAIN users : Verified(e)

\* C18: a login_user call for a verified identity with a password that does
\* not match returns the very result a call for an email without identity
\* returns, "Invalid email or password" with no needs_verification field;
\* the call for an identity that is not verified returns another result,
\* which has the field.
C18_CredentialMismatch ==
    (Quiet /\ last.op = "login") =>
        /\ ((Verified(last.email) /\ ~last.passwordOk) \/ last.email \notin DOMAIN users)
              => last.result = [success |-> FALSE, error |-> "Invalid email or password"]
        /\ Pending(last.email)
              => /\ last.result # [success |-> FALSE, error |-> "Invalid email or password"]
                 /\ "needs_verification" \in DOMAIN last.result

\* C18 witness: a login for a verified identity was rejected for its password
C18_Witness ==
    /\ Quiet /\ last.op = "login" /\ Verified(last.email)
    /\ ~last.passwordOk /\ ~last.result.success

\* the call that returned last issued a token whose delivery failed
Undelivered ==
    /\ last.op \in {"register", "resend"}
    /\ last.result.success /\ ~last.result.email_sent

\* C19: the send statement of register_user and of
\* resend_verification_email returns success True and leaves the store as
\* it is, whether the delivery succeeded or failed (email_sent is False and
\* email_error set exactly when it failed); after a call whose delivery
\* failed the identity and the new token are stored and saved, the token
\* unused; and a redemption of that token called next succeeds if it returns
\* before the expiry of the token, and is rejected for no other reason than
\* the expiry after it.
C19_DeliveryFailure ==
    [][/\ \A t \in Threads :
            (frame[t].pc \in {"r7", "s5"} /\ frame'[t] # frame[t]) =>
                /\ last'.result.success /\ UNCHANGED store
                /\ last'.result.email_sent <=> last'.result.email_error = None
       /\ (Quiet /\ Undelivered)' =>
            (/\ last.email \in DOMAIN users /\ last.email \in DOMAIN file.users
             /\ last.token \in DOMAIN tokens /\ last.token \in DOMAIN file.tokens
             /\ tokens[last.token].email = last.email
             /\ ~tokens[last.token].used)'
       /\ (Quiet /\ last.op = "verify" /\ last.undeliveredAtStart)' =>
            (IF PastExpiry(last.token)
               THEN last.result.success \/ last.result = TokenExpired
               ELSE /\ last.result.success
                    /\ tokens[last.token].used
                    /\ Verified(tokens[last.token].email))']_vars

\* C19 witness: the token of a registration or resend whose delivery failed
\* was redeemed with success
C19_Witness ==
    /\ Quiet /\ last.op = "verify" /\ last.undeliveredAtStart
    /\ last.result.success /\ <<last.result.email, last.token>> \in outbox

\* C20: no step of register_user, resend_verification_email,
\* verify_email_token or login_user removes an identity email or a token
\* value, from the store or from its file.
C20_NoDeletion ==
    [][/\ DOMAIN users \subseteq DOMAIN users'
       /\ DOMAIN tokens \subseteq DOMAIN tokens'
       /\ DOMAIN file.users \subseteq DOMAIN file'.users
       /\ DOMAIN file.tokens \subseteq DOMAIN file'.tokens]_vars

\* C20 witness: a consumed token and an expired, never consumed token are
\* both in the store after a redemption
C20_Witness ==
    /\ Quiet /\ last.op = "verify" /\ last.result.success
    /\ \E k \in DOMAIN tokens : tokens[k].used
    /\ \E k \in DOMAIN tokens : ~tokens[k].used /\ PastExpiry(k)

\* the stored record of email e differs after the step
RecordChanged(e) == e \in DOMAIN users' /\ heap'[users'[e]] # heap[users[e]]

C22_IdentityNeverMissing ==
    /\ last.op = "verify" => last.result # IdentityMissing
    /\ \A t \in Threads :
          At(t, "v4") => get_user(tokens[frame[t].token_data].email) # NoRef

\* C22 witness: a redemption has found its identity while the other thread
\* is inside a registration of the same email
C22_Witness ==
    \E t, u \in Threads :
        /\ At(t, "v5") /\ frame[u].op = "register"
        /\ frame[u].pc \in {"r2", "r3", "r4"}

\* the secret token k was signed with
SignedWith(k) == k[3][1]

\* C23: the result of verify_email_token(token) is fixed by the stored
\* tokens and the clock, whatever secret the service runs with and whatever
\* secret signed the token: a token that is not a key of the store, well
\* formed or not, is rejected as invalid by the lookup, which changes
\* nothing; a stored token that was used is rejected as used; a stored,
\* unused token is rejected as expired if the call was made after its
\* expiry, and else accepted unless the expiry passes during the call.
C23_MembershipOnly ==
    [][/\ \A t \in Threads :
            (At(t, "v1") /\ frame[t].token \notin DOMAIN tokens /\ frame'[t] # frame[t])
                => /\ frame'[t].pc = "idle" /\ last'.result = InvalidToken
                   /\ UNCHANGED <<store, hmac_secret>>
       /\ (Quiet /\ last.op = "verify")' =>
            (CASE last.token \notin DOMAIN tokens -> last.result = InvalidToken
               [] last.token \in DOMAIN tokens /\ ~last.unusedAtStart ->
                    last.result = TokenUsed
               [] last.token \in DOMAIN tokens /\ last.unusedAtStart /\ last.lateAtStart ->
                    last.result = TokenExpired
               [] OTHER ->
                    \/ last.result.success
                    \/ last.result = TokenExpired /\ PastExpiry(last.token))']_vars

\* C23 witness: a token signed with one secret was accepted by a service
\* that runs with another, after a well-formed token signed with the secret
\* of the service had been handed out and not yet used
C23_Witness ==
    /\ Quiet /\ last.op = "verify" /\ last.result.success
    /\ SignedWith(last.token) # hmac_secret
    /\ \E k \in DOMAIN tokens : SignedWith(k) = hmac_secret /\ ~tokens[k].used

\* thread t holds a token it has generated
Issuing(t) == frame[t].pc \in {"r6", "r7", "s4", "s5"}

\* C24: no two issuance calls hold the same token value, and every
\* add_token step of register_user and resend_verification_email stores its
\* token under a key that was not in the store and leaves the entries of
\* all other tokens (email, expiry, used) as they were.
C24_FreshToken ==
    [][/\ \A t, u \in Threads :
            (t # u /\ Issuing(t) /\ Issuing(u)) => frame[t].token # frame[u].token
       /\ \A t \in Threads :
            (frame[t].pc \in {"r6", "s4"} /\ frame'[t].pc \in {"r7", "s5"}) =>
                /\ frame[t].token \notin DOMAIN tokens
                /\ DOMAIN tokens' = DOMAIN tokens \cup {frame[t].token}
                /\ \A k \in DOMAIN tokens : tokens'[k] = tokens[k]]_vars

\* C24 witness: a resend has stored a token for an email that holds another
\* token issued at the same time
C24_Witness ==
    \E t \in Threads, k \in DOMAIN tokens :
        /\ At(t, "s5") /\ frame[t].token \in DOMAIN tokens /\ k # frame[t].token
        /\ k[2] = frame[t].token[2] /\ tokens[k].email = frame[t].email

\* C25: when send_verification_email is called with a token, the token is in
\* the store and in the saved file, bound to the email it is sent to and
\* unused: add_token has completed before the send statement of
\* register_user or resend_verification_email is reached.
C25_PersistedBeforeSend ==
    [][\A p \in outbox' \ outbox :
          /\ p[2] \in DOMAIN tokens /\ p[2] \in DOMAIN file.tokens
          /\ tokens[p[2]] = file.tokens[p[2]]
          /\ tokens[p[2]].email = p[1]
          /\ ~tokens[p[2]].used]_vars

\* C25 witness: a resend has handed its token to the mailer
C25_Witness ==
    /\ Quiet /\ last.op = "resend" /\ last.result.success
    /\ <<last.email, last.token>> \in outbox
    /\ Cardinality(outbox) >= 2

\* C26: verify_email_token tests not-found, already-used, expired and
\* user-missing in this order, each in a statement of its own that returns
\* its rejection when the condition holds and else goes on to the next; so
\* a call for a stored token that is used and past its expiry returns
\* "Token has already been used".
C26_RejectionOrder ==
    [][/\ \A t \in Threads :
            (frame[t].op = "verify" /\ frame'[t] # frame[t]) =>
                LET k == frame[t].token
                    rejects(res) == frame'[t].pc = "idle" /\ last'.result = res
                IN /\ At(t, "v1") =>
                         IF k \notin DOMAIN tokens THEN rejects(InvalidToken)
                                                   ELSE frame'[t].pc = "v2"
                   /\ At(t, "v2") =>
                         IF tokens[k].used THEN rejects(TokenUsed)
                                           ELSE frame'[t].pc = "v3"
                   /\ At(t, "v3") =>
                         IF PastExpiry(k) THEN rejects(TokenExpired)
                                          ELSE frame'[t].pc = "v4"
                   /\ At(t, "v4") =>
                         IF tokens[k].email \notin DOMAIN users THEN rejects(IdentityMissing)
                                                                ELSE frame'[t].pc = "v5"
       /\ (Quiet /\ LastVerify /\ ~last.unusedAtStart /\ last.lateAtStart)'
            => (last.result = TokenUsed)']_vars

\* C26 witness: a call made for a used token after its expiry was rejected
\* as used
C26_Witness ==
    /\ Quiet /\ LastVerify /\ ~last.unusedAtStart /\ last.lateAtStart
    /\ tokens[last.token].used /\ last.result = TokenUsed

\* a redemption of token k has passed its expiry check and not yet returned
Redeeming(k) ==
    \E t \in Threads : frame[t].token = k /\ frame[t].pc \in {"v4", "v5", "v6", "v7"}

\* C27 (as stated): a step in which the clock advances changes neither the
\* store nor the file; and a stored token that is unused and past its expiry
\* keeps its entry, used flag included, in every step of every operation.
C27_ExpiredUntouched ==
    [][/\ now' # now => UNCHANGED store
       /\ \A k \in DOMAIN tokens :
            (PastExpiry(k) /\ ~tokens[k].used) =>
                k \in DOMAIN tokens' /\ tokens'[k] = tokens[k]]_vars

\* C27 (amended): as stated, except for a token whose redemption passed the
\* expiry check before the expiry and is committing after it.
C27_LazyExpiry ==
    [][/\ now' # now => UNCHANGED store
       /\ \A k \in DOMAIN tokens :
            (PastExpiry(k) /\ ~tokens[k].used /\ ~Redeeming(k)) =>
                /\ k \in DOMAIN tokens' /\ tokens'[k] = tokens[k]
                /\ k \in DOMAIN file'.tokens /\ ~file'.tokens[k].used]_vars

\* C27 witness: a token that was rejected as expired is in the store,
\* unused, after a later resend for its email
C27_Witness ==
    /\ Quiet /\ last.op = "resend" /\ last.result.success
    /\ \E k \in expiredSeen :
          /\ k \in DOMAIN tokens /\ ~tokens[k].used /\ PastExpiry(k)
          /\ tokens[k].email = last.email

\* a redemption of a token bound to email e has returned success, or has set
\* the verified flag and is about to
Redeemed(e) ==
    \E k \in DOMAIN tokens :
        /\ tokens[k].email = e
        /\ \/ CopiesIn(k, accepted) > 0
           \/ \E t \in Threads : frame[t].token = k /\ frame[t].pc \in {"v6", "v7"}

SecondRedemption ==
    /\ Quiet /\ last.op = "verify" /\ last.token \in DOMAIN tokens
    /\ last.unusedAtStart /\ last.verifiedAtStart

\* C29: redeeming a second outstanding token after its identity was verified
\* through another token returns success again (unless the token expired
\* before the expiry check of the call, the only rejection there is), marks
\* that second token used and leaves the identity verified; each of the
\* tokens was accepted once: the single-use bound is per token, not per
\* identity.
C29_SecondRedemption ==
    SecondRedemption =>
        /\ Verified(tokens[last.token].email)
        /\ IF PastExpiry(last.token)
             THEN last.result.success \/ last.result = TokenExpired
             ELSE last.result.success
        /\ last.result.success =>
             /\ last.result.email = tokens[last.token].email
             /\ tokens[last.token].used
             /\ CopiesIn(last.token, accepted) = 1
             /\ \E k \in DOMAIN tokens \ {last.token} :
                    /\ tokens[k].email = tokens[last.token].email
                    /\ tokens[k].used /\ CopiesIn(k, accepted) = 1

\* C29 witness: a second token of an identity was redeemed with success after
\* the identity had been verified through its first token
C29_Witness ==
    /\ SecondRedemption /\ last.result.success /\ ~PastExpiry(last.token)
    /\ \E k \in DOMAIN tokens \ {last.token} :
           tokens[k].email = tokens[last.token].email /\ CopiesIn(k, accepted) = 1
    /\ \A k \in DOMAIN tokens : tokens[k].used

\* the step belongs to a login_user call of thread t
LoginStep(t) ==
    /\ frame[t].op = "login" \/ frame'[t].op = "login"
    /\ frame'[t] # frame[t]

\* record q is record p but for its last_login field
OnlyLastLogin(p, q) == q = [p EXCEPT !.last_login = q.last_login]

C31_PasswordFixed ==
    [][/\ \A e \in DOMAIN users :
            /\ e \in DOMAIN users'
            /\ heap'[users'[e]].password_hash = heap[users[e]].password_hash
       /\ \A e \in DOMAIN users' \ DOMAIN users :
            \E t \in Threads :
                /\ frame[t].op = "register" /\ frame[t].email = e
                /\ heap'[users'[e]].password_hash = sha256(frame[t].password)
       /\ \A t \in Threads :
            (frame[t].op = "login" /\ frame'[t] = IdleFrame /\ last'.result.success) =>
                heap[users[frame[t].email]].password_hash = sha256(frame[t].password)]_vars

\* C32: a record written to db_file is never lost to a later write: in every
\* step that leaves a readable file, the identities and tokens the file held
\* before the step are still in it, whichever of the instances opened on the
\* file performs the write.
C32_NoLostRecord ==
    [][(Readable(file) /\ Readable(file')) =>
          /\ DOMAIN file.users \subseteq DOMAIN file'.users
          /\ DOMAIN file.tokens \subseteq DOMAIN file'.tokens]_vars

\* C33: constructing SimpleDatabase on a file that is missing or is not JSON
\* yields the empty store and rewrites the file with it; on a readable file
\* the store in memory equals the content of the file and the file is not
\* written.
C33_LoadDb ==
    [][opens'.n # opens.n =>
          IF Readable(file)
            THEN /\ Snapshot(users', heap', tokens') = file
                 /\ file' = file /\ ~opens'.saved
            ELSE /\ Snapshot(users', heap', tokens') = EmptyStore
                 /\ file' = EmptyStore /\ opens'.saved]_vars

\* C33 witness: an instance was constructed on a damaged file and holds the
\* empty store, which is now the content of the file, while the instance
\* constructed before it still holds an identity
C33_Witness ==
    /\ opens.n > 0 /\ opens.saved /\ file = EmptyStore
    /\ users = <<>> /\ tokens = <<>>
    /\ other # Closed /\ DOMAIN other.users # {}

\* the call of the client function has returned or raised
Done == poller.pc = "done"

\* C34: get_sms_for_verification terminates after at most `retries` poll
\* requests: a poll is made only while fewer than `retries` were made; it
\* returns the first element of the first non-empty data list right after the
\* poll that yielded it, every poll before that one having been empty; it
\* returns None after exactly `retries` empty polls (none for retries = 0);
\* and every call comes to an end.
C34_SmsPolling ==
    /\ [](poller.fn = "get_sms" =>
            /\ poller.polls <= poller.retries
            /\ poller.result = ReturnNone =>
                  poller.polls = poller.retries /\ poller.empty = poller.retries
            /\ (Done /\ poller.result \notin {ReturnNone, Raised}) =>
                  /\ poller.polls = poller.empty + 1
                  /\ poller.result = Return_(Head(poller.data.data))
            /\ poller.pc = "sleep" => poller.empty = poller.polls)
    /\ (poller.fn = "get_sms") ~> Done

\* C34 witness: a call with retries > 1 has returned an SMS from a poll that
\* came after an empty one
C34_Witness ==
    /\ poller.fn = "get_sms" /\ Done /\ poller.empty > 0
    /\ poller.result = Return_("sms2") /\ poller.polls <= poller.retries

\* C35: retrieve_verification_code makes at most max_attempts attempts; an
\* exception in an attempt ends that attempt only, the next attempt follows
\* and no exception leaves the function; it returns a result only for an SMS
\* with a non-empty parsedCode, whose code is in the result; otherwise it
\* returns None after max_attempts attempts, having slept between the
\* attempts and not after the last one; and every call comes to an end.
C35_CodePolling ==
    /\ [](poller.fn = "retrieve_code" =>
            /\ poller.attempts <= poller.max_attempts
            /\ poller.result # Raised
            /\ poller.pc = "except" => poller.attempts = poller.attempt
            /\ (Done /\ poller.result # ReturnNone) =>
                  /\ Get(poller.sms, "parsedCode", "") # ""
                  /\ poller.result.value.code = poller.sms.parsedCode
                  /\ poller.result.value.sms = poller.sms
                  /\ poller.sleeps = poller.attempts - 1
            /\ poller.result = ReturnNone =>
                  /\ poller.attempts = poller.max_attempts
                  /\ poller.sleeps = IF poller.attempts = 0 THEN 0 ELSE poller.attempts - 1)
    /\ [][(poller.fn = "retrieve_code" /\ poller.pc = "except") =>
            /\ poller'.pc = "for" /\ poller'.attempt = poller.attempt + 1
            /\ poller'.result = InCall]_vars
    /\ (poller.fn = "retrieve_code") ~> Done

\* C35 witness: a call has returned a code from an attempt that followed an
\* attempt ended by an exception
C35_Witness ==
    /\ poller.fn = "retrieve_code" /\ Done /\ poller.errors > 0
    /\ poller.result # ReturnNone /\ poller.result.value.code = "123456"

\* the call of wait_for_verification_email has returned the dict of a success
FoundCode == Done /\ poller.result \notin {Raised, Return_(TimeoutError)}
                  /\ Get(Get(poller.result, "value", [none |-> TRUE]), "success", FALSE)

\* C36: wait_for_verification_email always terminates.  A poll is made only
\* while the elapsed time is below `timeout`; a failed poll (a client without
\* token included) is the last one, and its failure is what the call returns;
\* a matching message whose content yields a code ends the call with success
\* and that code at once; the timeout error is returned only when the elapsed
\* time has reached `timeout`, and is what the loop check returns then.
C36_WaitTerminates ==
    /\ [](poller.fn = "wait_email" =>
            /\ poller.pc = "get" => poller.elapsed < poller.timeout
            /\ ~poller.messages_result.success =>
                  Done /\ poller.result = Return_(poller.messages_result)
            /\ (Done /\ poller.result = Return_(NotAuthenticated)) =>
                  poller.token = None /\ poller.polls = 1
            /\ (Done /\ poller.result = Return_(TimeoutError)) =>
                  poller.elapsed >= poller.timeout
            /\ FoundCode =>
                  /\ poller.result.value.code = CodeOf(poller.content)
                  /\ poller.result.value.code # None
                  /\ poller.result.value.message_id = poller.inbox[poller.j].id
                  /\ poller.sender_contains # None =>
                        Contains(poller.sender_contains, poller.result.value.sender))
    /\ [][poller.fn = "wait_email" =>
            /\ poller'.polls # poller.polls =>
                  poller.elapsed < poller.timeout /\ poller.messages_result.success
            /\ (poller.pc = "while" /\ poller.elapsed >= poller.timeout) =>
                  poller'.result = Return_(TimeoutError) /\ poller'.polls = poller.polls
            /\ (poller.pc = "extract" /\ ~HtmlRaises(poller.content)
                  /\ CodeOf(poller.content) # None /\ poller'.result # Raised) =>
                  poller'.pc = "done" /\ poller'.result.value.success]_vars
    /\ (poller.fn = "wait_email") ~> Done

\* C36 witness: a call found the code in the second message of the inbox of
\* a poll that came after a sleep
C36_Witness ==
    /\ poller.fn = "wait_email" /\ FoundCode /\ poller.polls > 1
    /\ poller.j = 2 /\ poller.result.value.code = "123456"

====
